---- MODULE Spec2Model ----
(***************************************************************************)
(* Bowing camera: the session driver of src/app.js and the metric          *)
(* functions of src/bow-metrics.js.                                        *)
(*                                                                         *)
(* Numbers.  JavaScript numbers are modelled by integers in fixed units:   *)
(*   coordinates and distances   1 unit = 0.001 (normalised image space)   *)
(*   rounded relative heights    1 unit = 0.01  (Math.round(x*100)/100)    *)
(*   smoothed elbow height       1 unit = 0.000001                         *)
(*   smoothed straightness       1 unit = 0.0001                           *)
(*   timestamps                  1 unit = 1 ms                             *)
(* Comparisons of quotients are cross-multiplied, so every threshold is    *)
(* decided exactly.  null is the empty sequence <<>>, a value v that may   *)
(* be null is <<v>>.  The Japanese labels are named by ASCII keys.         *)
(***************************************************************************)
EXTENDS Integers, Sequences, FiniteSets, TLC

Null == <<>>
Some(v) == <<v>>
IsNull(o) == o = <<>>
Val(o) == o[1]

Abs(x) == IF x < 0 THEN 0 - x ELSE x
Sign(x) == IF x > 0 THEN 1 ELSE IF x < 0 THEN 0 - 1 ELSE 0
Max2(a, b) == IF a >= b THEN a ELSE b
Min2(a, b) == IF a <= b THEN a ELSE b
Max3(a, b, c) == Max2(a, Max2(b, c))
Min3(a, b, c) == Min2(a, Min2(b, c))

\* Math.round(num / den) for den > 0: the nearest integer, halves towards +infinity.
Round(num, den) == (2 * num + den) \div (2 * den)

(***************************************************************************)
(* Program constants.                                                      *)
(***************************************************************************)
TRAIL_CAP == 60
MIN_TRAIL == 10
MIN_STROKE == 8
NOISE_DX == 2
MIN_STROKE_LEN == 30
DIST_RESET_MS == 10000
DIAGNOSE_DURATION == 15
CENTI_IN_MICRO == 10000
FALLBACK_SCALE == 300
MIN_SCALE == 10
MIN_ARM == 10
ALPHA_STRAIGHT == 15
ALPHA_ELBOW == 10

(***************************************************************************)
(* bow-metrics.js                                                          *)
(***************************************************************************)

\* ema(prev, curr, alpha): alpha in percent, prev nullable, values in one unit.
\* An average that starts from 0 instead of from its first sample.
emaFromZero(prev, curr, alpha) ==
  (IF IsNull(prev) THEN 0 ELSE Val(prev))
    + Round(alpha * (curr - (IF IsNull(prev) THEN 0 ELSE Val(prev))), 100)

ema(prev, curr, alpha) ==
  IF IsNull(prev) THEN curr
  ELSE Val(prev) + Round(alpha * (curr - Val(prev)), 100)

\* A segmentation without the noise test: every step is compared with prevDx and
\* becomes the remembered direction.
RECURSIVE segmentNoiseTurns(_, _)
segmentNoiseTurns(trail, i) ==
  IF i = 1 THEN [strokes |-> <<>>, cur |-> <<trail[1]>>, prevDx |-> 0]
  ELSE LET s == segmentNoiseTurns(trail, i - 1)
           dx == trail[i].x - trail[i - 1].x
       IN IF s.prevDx # 0 /\ Sign(dx) # Sign(s.prevDx)
          THEN [strokes |-> IF Len(s.cur) >= MIN_STROKE
                            THEN Append(s.strokes, s.cur) ELSE s.strokes,
                cur |-> <<trail[i]>>,
                prevDx |-> dx]
          ELSE [s EXCEPT !.cur = Append(s.cur, trail[i]), !.prevDx = dx]

\* The stroke segmentation of computeBowStraightness: the state of the loop after
\* sample i is [strokes, cur, prevDx]; a stroke is a sequence of samples.
RECURSIVE segment(_, _)
segment(trail, i) ==
  IF i = 1 THEN [strokes |-> <<>>, cur |-> <<trail[1]>>, prevDx |-> 0]
  ELSE LET s == segment(trail, i - 1)
           dx == trail[i].x - trail[i - 1].x
       IN IF Abs(dx) < NOISE_DX
          THEN [s EXCEPT !.cur = Append(s.cur, trail[i])]
          ELSE IF s.prevDx # 0 /\ Sign(dx) # Sign(s.prevDx)
               THEN [strokes |-> IF Len(s.cur) >= MIN_STROKE
                                 THEN Append(s.strokes, s.cur) ELSE s.strokes,
                     cur |-> <<trail[i]>>,
                     prevDx |-> dx]
               ELSE [s EXCEPT !.cur = Append(s.cur, trail[i]), !.prevDx = dx]

\* The strokes list after the loop and the closing push of the pending stroke.
strokesOf(trail) ==
  LET s == segment(trail, Len(trail))
  IN IF Len(s.cur) >= MIN_STROKE THEN Append(s.strokes, s.cur) ELSE s.strokes

\* The squared first-to-last length of a stroke (distance(first, last)^2).
strokeLen2(stroke) ==
  LET a == stroke[1]
      b == stroke[Len(stroke)]
  IN (a.x - b.x) * (a.x - b.x) + (a.y - b.y) * (a.y - b.y)

\* The score/status pair the line fit yields for a curvature class. The fit itself
\* (least squares, square roots) is real arithmetic: its value is supplied with the
\* frame as fit = [score, status], one of the pairs the code can return.
FitResults ==
  { [score |-> s, status |-> "good"] : s \in 90..100 } \cup
  { [score |-> s, status |-> "warn"] : s \in 75..90 } \cup
  { [score |-> s, status |-> "bad"] : s \in 0..75 }

\* computeBowStraightness(wristTrail), the fit's value given.
computeBowStraightness(wristTrail, fit) ==
  IF Len(wristTrail) < MIN_TRAIL THEN [score |-> Null, status |-> "good"]
  ELSE LET strokes == strokesOf(wristTrail)
       IN IF Len(strokes) = 0 THEN [score |-> Null, status |-> "good"]
          ELSE IF strokeLen2(strokes[Len(strokes)]) < MIN_STROKE_LEN * MIN_STROKE_LEN
               THEN [score |-> Null, status |-> "good"]
               ELSE [score |-> Some(fit.score), status |-> fit.status]

\* computeBowZone, the three distances given: upperArm = distance(shoulder, elbow),
\* forearm = distance(elbow, wrist), reach = distance(shoulder, wrist).
computeBowZone(upperArm, forearm, reach) ==
  LET armLength == upperArm + forearm
  IN IF armLength < MIN_ARM THEN [zone |-> "middle", extensionRatio |-> 50]
     ELSE [zone |-> IF 100 * reach < 55 * armLength THEN "frog"
                    ELSE IF 100 * reach < 78 * armLength THEN "middle"
                    ELSE "tip",
           extensionRatio |-> Round(100 * reach, armLength)]

\* A distribution that rounds each of the three percentages by itself.
computeDistributionPercentRounded(dist) ==
  LET total == dist.tip + dist.middle + dist.frog
  IN IF total = 0 THEN [tip |-> 33, middle |-> 34, frog |-> 33, label |-> "--"]
     ELSE [tip |-> Round(100 * dist.tip, total),
           middle |-> Round(100 * dist.middle, total),
           frog |-> Round(100 * dist.frog, total),
           label |-> "even"]

computeDistributionPercent(dist) ==
  LET total == dist.tip + dist.middle + dist.frog
  IN IF total = 0 THEN [tip |-> 33, middle |-> 34, frog |-> 33, label |-> "--"]
     ELSE LET tipPct == Round(100 * dist.tip, total)
              frogPct == Round(100 * dist.frog, total)
              midPct == 100 - tipPct - frogPct
              max == Max3(tipPct, midPct, frogPct)
          IN [tip |-> tipPct, middle |-> midPct, frog |-> frogPct,
              label |-> IF max >= 50
                        THEN (IF tipPct = max THEN "tipHeavy"
                              ELSE IF frogPct = max THEN "frogHeavy"
                              ELSE "middleCentred")
                        ELSE IF max - Min3(tipPct, midPct, frogPct) < 15
                             THEN "fullBow" ELSE "even"]

\* computeElbowHeight(shoulder, elbow, rHip, null): only the y coordinates are read.
computeElbowHeight(shoulderY, elbowY, hipY) ==
  LET dy == elbowY - shoulderY
      scale0 == Abs(hipY - shoulderY)
      bodyScale == IF scale0 < MIN_SCALE THEN FALLBACK_SCALE ELSE scale0
      rh == Round(100 * dy, bodyScale)
  IN IF 20 * dy < 0 - 3 * bodyScale
     THEN [relativeHeight |-> rh, status |-> "warn", label |-> "tooHigh"]
     ELSE IF 2 * dy > bodyScale
     THEN [relativeHeight |-> rh, status |-> "bad", label |-> "tooLow"]
     ELSE IF 20 * dy > 7 * bodyScale
     THEN [relativeHeight |-> rh, status |-> "warn", label |-> "slightlyLow"]
     ELSE [relativeHeight |-> rh, status |-> "good", label |-> "OK"]

\* The baseline part of computeShoulderTension (lines 213-225).
baselineTension(avgDist, baseDist) ==
  IF ~IsNull(baseDist) /\ Val(baseDist) > 0
  THEN LET b == Val(baseDist)
           tension == Max2(0, Round(100 * (b - avgDist), b))
       IN IF 4 * (b - avgDist) > b
          THEN [tension |-> tension, status |-> "bad", label |-> "tense"]
          ELSE IF 20 * (b - avgDist) > 3 * b
          THEN [tension |-> tension, status |-> "warn", label |-> "slightlyTense"]
          ELSE [tension |-> tension, status |-> "good", label |-> "relaxed"]
  ELSE [tension |-> 0, status |-> "good", label |-> "relaxed"]

\* asymmetry > 0.2; Math.max(rDist, lDist) = 0 gives NaN, and NaN > 0.2 is false.
asymmetric(rDist, lDist) == 5 * Abs(rDist - lDist) > Max2(rDist, lDist)

\* computeShoulderTension, the two shoulder-ear distances given (even numbers of
\* half-units, so that their mean is a whole number).
computeShoulderTension(rDist, lDist, baseDist) ==
  LET avgDist == (rDist + lDist) \div 2
      b == baselineTension(avgDist, baseDist)
  IN IF asymmetric(rDist, lDist) /\ b.status = "good"
     THEN [tension |-> b.tension, status |-> "warn", label |-> "leftRight",
           currentDist |-> avgDist]
     ELSE [tension |-> b.tension, status |-> b.status, label |-> b.label,
           currentDist |-> avgDist]

\* generateAdvice (lines 241-276). A metrics record has straightness, elbow,
\* shoulder and distribution; a message is named by what it says.
adviceIssues(metrics) ==
  (IF metrics.straightness.status = "bad" THEN <<"bowBent">>
   ELSE IF metrics.straightness.status = "warn" THEN <<"bowSlightlyBent">>
   ELSE <<>>)
  \o (IF metrics.elbow.status = "bad" THEN <<"elbowTooLow">>
      ELSE IF metrics.elbow.label = "tooHigh" THEN <<"elbowTooHigh">>
      ELSE IF metrics.elbow.status = "warn" THEN <<"elbowRaise">>
      ELSE <<>>)
  \o (IF metrics.shoulder.status = "bad" THEN <<"shoulderTense">>
      ELSE IF metrics.shoulder.status = "warn"
      THEN (IF metrics.shoulder.label = "leftRight" THEN <<"shoulderUneven">>
            ELSE <<"shoulderRaised">>)
      ELSE <<>>)

\* An advice that shows the last issue found instead of the first.
generateAdviceLastIssue(metrics) ==
  LET issues == adviceIssues(metrics)
  IN IF Len(issues) = 0
     THEN (IF metrics.distribution.label = "fullBow" THEN "fullBowPraise"
           ELSE "formGood")
     ELSE issues[Len(issues)]

generateAdvice(metrics) ==
  LET issues == adviceIssues(metrics)
  IN IF Len(issues) = 0
     THEN (IF metrics.distribution.label = "fullBow" THEN "fullBowPraise"
           ELSE "formGood")
     ELSE issues[1]

(***************************************************************************)
(* app.js: the session driver.                                             *)
(*                                                                         *)
(* A frame is the landmark set reduced to what processFrame reads: the     *)
(* wrist position (x, y), the y coordinates of right shoulder, right elbow *)
(* and right hip, the distances that BowMetrics.distance would return      *)
(* (upperArm, forearm, reach, rDist, lDist) and the value of the line fit. *)
(***************************************************************************)
VARIABLES
  state,             \* the state object (lines 77-99)
  lastVideoTime,     \* let lastVideoTime (line 103)
  poseLandmarker,    \* TRUE once the model is loaded (line 101)
  stream,            \* TRUE while a camera stream is held (line 102)
  startBtnDisabled,  \* startBtn.disabled
  calls,             \* the start() calls that are awaiting: caller -> how many
  nStarts,           \* start() calls made so far
  raf,               \* animation-frame callbacks of detectLoop that are scheduled
  now,               \* performance.now()
  timers,            \* the intervals made by setInterval, by id
  modal,             \* what showDiagnoseReport last put into the modal, or null
  fin,               \* arguments of the metric function under check
  fout               \* its result

vars == <<state, lastVideoTime, poseLandmarker, stream, startBtnDisabled, calls,
          nStarts, raf, now, timers, modal, fin, fout>>

driverVars == <<state, lastVideoTime, poseLandmarker, stream, startBtnDisabled,
                calls, nStarts, raf, now, timers, modal>>

state0 ==
  [isRunning |-> FALSE,
   wristTrail |-> <<>>,
   bowDistribution |-> [tip |-> 0, middle |-> 0, frog |-> 0],
   bowDistResetTime |-> 0,
   baseShoulderEarDist |-> Null,
   lastShoulderEarDist |-> Null,
   smoothStraightness |-> Null,
   smoothElbowHeight |-> Null,
   smoothShoulderTension |-> Null,
   currentMetrics |-> Null,
   diagnosing |-> FALSE,
   diagnoseStartTime |-> 0,
   diagnoseTimerId |-> Null,
   diagnoseLog |-> <<>>]

\* The callers of start().
Callers == {"toggleRunning", "startDiagnose"}

\* ── processFrame ──

\* A push that shifts as soon as the trail reaches its capacity.
pushTrailShiftEarly(trail, sample) ==
  LET t == Append(trail, sample)
  IN IF Len(t) >= TRAIL_CAP THEN Tail(t) ELSE t

\* Lines 297-300: push the sample, shift the oldest when the trail exceeds 60.
pushTrail(trail, sample) ==
  LET t == Append(trail, sample)
  IN IF Len(t) > TRAIL_CAP THEN Tail(t) ELSE t

\* A count that restarts the window already at exactly 10 s.
countZoneResetAtBoundary(dist, resetTime, zone, ts) ==
  IF ts - resetTime >= DIST_RESET_MS
  THEN [bowDistribution |->
          [[tip |-> 0, middle |-> 0, frog |-> 0] EXCEPT ![zone] = @ + 1],
        bowDistResetTime |-> ts]
  ELSE [bowDistribution |-> [dist EXCEPT ![zone] = @ + 1],
        bowDistResetTime |-> resetTime]

\* Lines 310-316: count the zone; every 10 s reset and count it again.
countZone(dist, resetTime, zone, ts) ==
  LET d1 == [dist EXCEPT ![zone] = @ + 1]
  IN IF ts - resetTime > DIST_RESET_MS
     THEN [bowDistribution |->
             [[tip |-> 0, middle |-> 0, frog |-> 0] EXCEPT ![zone] = @ + 1],
           bowDistResetTime |-> ts]
     ELSE [bowDistribution |-> d1, bowDistResetTime |-> resetTime]

\* Lines 334-336: the status of the smoothed score (unit 0.0001).
SCORE_UNIT == 10000
straightnessStatusOf(smoothedScore) ==
  IF IsNull(smoothedScore) THEN "good"
  ELSE IF Val(smoothedScore) >= 85 * SCORE_UNIT THEN "good"
  ELSE IF Val(smoothedScore) >= 65 * SCORE_UNIT THEN "warn"
  ELSE "bad"

roundScore(smoothedScore) ==
  IF IsNull(smoothedScore) THEN Null ELSE Some(Round(Val(smoothedScore), SCORE_UNIT))

\* A processFrame that logs without looking at state.diagnosing.
appendLogAlways(s, entry) == Append(s.diagnoseLog, entry)

\* Lines 339-352: the log after the frame.
appendLog(s, entry) ==
  IF s.diagnosing THEN Append(s.diagnoseLog, entry) ELSE s.diagnoseLog

\* A record published with the result of computeShoulderTension as it is.
publishedShoulderRaw(baseShoulderEarDist, shoulderTension) == shoulderTension

\* Lines 369-371: the shoulder field of the published record.
publishedShoulder(baseShoulderEarDist, shoulderTension) ==
  IF IsNull(baseShoulderEarDist)
  THEN [tension |-> 0, status |-> "good", label |-> "awaitingCalibration",
        currentDist |-> shoulderTension.currentDist]
  ELSE shoulderTension

processFrame(s, lm, ts) ==
  LET trail == pushTrail(s.wristTrail, [x |-> lm.x, y |-> lm.y, t |-> ts])
      straightness == computeBowStraightness(trail, lm.fit)
      smoothS == IF ~IsNull(straightness.score)
                 THEN Some(ema(s.smoothStraightness,
                               Val(straightness.score) * SCORE_UNIT, ALPHA_STRAIGHT))
                 ELSE s.smoothStraightness
      bowZone == computeBowZone(lm.upperArm, lm.forearm, lm.reach)
      counted == countZone(s.bowDistribution, s.bowDistResetTime, bowZone.zone, ts)
      distribution == computeDistributionPercent(counted.bowDistribution)
      elbowHeight == computeElbowHeight(lm.shoulderY, lm.elbowY, lm.hipY)
      smoothE == ema(s.smoothElbowHeight,
                     elbowHeight.relativeHeight * CENTI_IN_MICRO, ALPHA_ELBOW)
      shoulderTension == computeShoulderTension(lm.rDist, lm.lDist,
                                                s.baseShoulderEarDist)
      straightnessStatus == straightnessStatusOf(smoothS)
      entry == [straightness |-> roundScore(smoothS),
                straightnessStatus |-> straightnessStatus,
                elbowHeight |-> Round(smoothE, CENTI_IN_MICRO),
                elbowStatus |-> elbowHeight.status,
                elbowLabel |-> elbowHeight.label,
                shoulderTension |-> shoulderTension.tension,
                shoulderStatus |-> shoulderTension.status,
                shoulderLabel |-> shoulderTension.label,
                bowZone |-> bowZone.zone,
                extensionRatio |-> bowZone.extensionRatio]
  IN [s EXCEPT
        !.wristTrail = trail,
        !.smoothStraightness = smoothS,
        !.bowDistribution = counted.bowDistribution,
        !.bowDistResetTime = counted.bowDistResetTime,
        !.smoothElbowHeight = Some(smoothE),
        !.lastShoulderEarDist = Some(shoulderTension.currentDist),
        !.diagnoseLog = appendLog(s, entry),
        !.currentMetrics = Some(
           [straightness |-> [score |-> roundScore(smoothS),
                              status |-> straightnessStatus],
            distribution |-> distribution,
            bowZone |-> bowZone,
            elbow |-> [elbowHeight EXCEPT
                         !.relativeHeight = Round(smoothE, CENTI_IN_MICRO)],
            shoulder |-> publishedShoulder(s.baseShoulderEarDist, shoulderTension)])]

\* A loop without the comparison of video.currentTime with lastVideoTime.
detectLoopEveryTick(s, lvt, ready, t, lm, ts) ==
  IF ~ready
  THEN [state |-> s, lastVideoTime |-> lvt, frame |-> FALSE]
  ELSE IF IsNull(lm)
       THEN [state |-> s, lastVideoTime |-> t, frame |-> FALSE]
       ELSE [state |-> processFrame(s, Val(lm), ts), lastVideoTime |-> t,
             frame |-> TRUE]

\* ── detectLoop (lines 256-284) ──
\* One call with the session running: t is video.currentTime, ready is
\* video.readyState >= 2, lm the landmarks the detector returns (null: no pose),
\* ts the value of performance.now(). The call reschedules itself, so the number of
\* scheduled callbacks is for the caller to keep.
detectLoop(s, lvt, ready, t, lm, ts) ==
  IF ~ready \/ t = lvt
  THEN [state |-> s, lastVideoTime |-> lvt, frame |-> FALSE]
  ELSE IF IsNull(lm)
       THEN [state |-> s, lastVideoTime |-> t, frame |-> FALSE]
       ELSE [state |-> processFrame(s, Val(lm), ts), lastVideoTime |-> t,
             frame |-> TRUE]

\* ── start (lines 134-138) and stop (line 153) ──
startReset(s, t) ==
  [s EXCEPT !.isRunning = TRUE,
            !.baseShoulderEarDist = Null,
            !.bowDistribution = [tip |-> 0, middle |-> 0, frog |-> 0],
            !.bowDistResetTime = t,
            !.wristTrail = <<>>]

stop(s) == [s EXCEPT !.isRunning = FALSE]

\* A calibration that takes any measured distance, a zero one too.
calibrateShoulderAnyDist(s) ==
  IF ~IsNull(s.lastShoulderEarDist)
  THEN [s EXCEPT !.baseShoulderEarDist = s.lastShoulderEarDist]
  ELSE s

\* ── calibrateShoulder (lines 215-225) ──
calibrateShoulder(s) ==
  IF ~IsNull(s.lastShoulderEarDist) /\ Val(s.lastShoulderEarDist) > 0
  THEN [s EXCEPT !.baseShoulderEarDist = s.lastShoulderEarDist]
  ELSE s

\* ── the diagnostic capture (lines 510-562) ──
\* The body of startDiagnose after its await: id is what setInterval returns.
startDiagnoseBody(s, t, id) ==
  [s EXCEPT !.diagnosing = TRUE,
            !.diagnoseLog = <<>>,
            !.diagnoseStartTime = t,
            !.diagnoseTimerId = Some(id)]

cancelDiagnose(s) ==
  [s EXCEPT !.diagnosing = FALSE, !.diagnoseTimerId = Null]

\* clearInterval(state.diagnoseTimerId) inside cancelDiagnose.
clearTimer(tm, timerId) ==
  IF IsNull(timerId) THEN tm
  ELSE [tm EXCEPT ![Val(timerId)].live = FALSE]

\* setInterval of startDiagnose: remaining = DIAGNOSE_DURATION.
newTimer(tm) ==
  Append(tm, [live |-> TRUE, remaining |-> DIAGNOSE_DURATION, reports |-> 0])

\* ── showDiagnoseReport (lines 564-637) ──
RECURSIVE SumSeq(_)
SumSeq(q) == IF q = <<>> THEN 0 ELSE Head(q) + SumSeq(Tail(q))

RECURSIVE MaxSeq(_)
MaxSeq(q) == IF q = <<>> THEN 0 ELSE Max2(Head(q), MaxSeq(Tail(q)))

CountZone(log, z) == Cardinality({ i \in 1..Len(log) : log[i].bowZone = z })

\* Lines 586-591: the zone percentages of the report.
reportZonePercent(zoneCounts) ==
  LET totalZone == zoneCounts.tip + zoneCounts.middle + zoneCounts.frog
      tipPct == Round(100 * zoneCounts.tip, totalZone)
      frogPct == Round(100 * zoneCounts.frog, totalZone)
  IN [tip |-> tipPct, middle |-> 100 - tipPct - frogPct, frog |-> frogPct]

statusScore(status, good, warn, bad) ==
  IF status = "good" THEN good ELSE IF status = "warn" THEN warn ELSE bad

\* The numbers of valid straightness and of positive tension samples of a log.
validStraightnessCount(log) ==
  Cardinality({i \in 1..Len(log) : ~IsNull(log[i].straightness)})
validTensionCount(log) ==
  Cardinality({i \in 1..Len(log) : log[i].shoulderTension > 0})

\* Divisors of an aggregation that averages the scores without the length check.
reportDivisorsUnguarded(log) ==
  {Len(log), validStraightnessCount(log),
   CountZone(log, "tip") + CountZone(log, "middle") + CountZone(log, "frog"), 5}

\* Lines 573-618, for a non-empty log: the numbers the aggregation divides by
\* (log.length, validStraightness.length and validTension.length behind their
\* length > 0 checks, totalZone, totalW).
reportDivisors(log) ==
  {Len(log)}
    \cup (IF validStraightnessCount(log) > 0
          THEN {validStraightnessCount(log)} ELSE {})
    \cup (IF validTensionCount(log) > 0 THEN {validTensionCount(log)} ELSE {})
    \cup {CountZone(log, "tip") + CountZone(log, "middle") + CountZone(log, "frog")}
    \cup {IF validStraightnessCount(log) > 0 THEN 8 ELSE 5}

showDiagnoseReport(log) ==
  IF Len(log) = 0 THEN [kind |-> "noPose"]
  ELSE
    LET IsScored(l) == ~IsNull(l.straightness)
        IsTense(l) == l.shoulderTension > 0
        scored == SelectSeq(log, IsScored)
        validStraightness == [i \in 1..Len(scored) |-> Val(scored[i].straightness)]
        avgStraightness == IF Len(validStraightness) > 0
                           THEN Some(Round(SumSeq(validStraightness),
                                           Len(validStraightness)))
                           ELSE Null
        avgElbow == Round(SumSeq([i \in 1..Len(log) |-> log[i].elbowHeight]), Len(log))
        tense == SelectSeq(log, IsTense)
        validTension == [i \in 1..Len(tense) |-> tense[i].shoulderTension]
        avgTension == IF Len(validTension) > 0
                      THEN Round(SumSeq(validTension), Len(validTension)) ELSE 0
        maxTension == IF Len(validTension) > 0 THEN MaxSeq(validTension) ELSE 0
        pct == reportZonePercent([tip |-> CountZone(log, "tip"),
                                  middle |-> CountZone(log, "middle"),
                                  frog |-> CountZone(log, "frog")])
        straightStatus == IF IsNull(avgStraightness) THEN "good"
                          ELSE IF Val(avgStraightness) >= 85 THEN "good"
                          ELSE IF Val(avgStraightness) >= 65 THEN "warn" ELSE "bad"
        elbowStatus == IF avgElbow < 0 - 15 THEN "warn"
                       ELSE IF avgElbow > 50 THEN "bad"
                       ELSE IF avgElbow > 35 THEN "warn" ELSE "good"
        shoulderStatus == IF maxTension > 25 THEN "bad"
                          ELSE IF avgTension > 15 THEN "warn" ELSE "good"
        maxZone == Max3(pct.tip, pct.middle, pct.frog)
        minZone == Min3(pct.tip, pct.middle, pct.frog)
        distStatus == IF maxZone - minZone < 20 THEN "good"
                      ELSE IF maxZone - minZone < 35 THEN "warn" ELSE "bad"
        fixedW == 2 * statusScore(elbowStatus, 90, 60, 30)
                  + 2 * statusScore(shoulderStatus, 95, 60, 30)
                  + statusScore(distStatus, 90, 65, 35)
        totalW == IF IsNull(avgStraightness) THEN 5 ELSE 8
        weighted == IF IsNull(avgStraightness) THEN fixedW
                    ELSE 3 * Val(avgStraightness) + fixedW
        overall == Round(weighted, totalW)
    IN [kind |-> "report",
        avgStraightness |-> avgStraightness,
        avgElbow |-> avgElbow,
        avgTension |-> avgTension,
        maxTension |-> maxTension,
        tipPct |-> pct.tip, midPct |-> pct.middle, frogPct |-> pct.frog,
        straightStatus |-> straightStatus,
        elbowStatus |-> elbowStatus,
        shoulderStatus |-> shoulderStatus,
        distStatus |-> distStatus,
        overall |-> overall,
        overallStatus |-> IF overall >= 80 THEN "good"
                          ELSE IF overall >= 60 THEN "warn" ELSE "bad",
        elbowLabel |-> IF avgElbow < 0 - 15 THEN "tooHigh"
                       ELSE IF avgElbow > 50 THEN "tooLow"
                       ELSE IF avgElbow > 35 THEN "slightlyLow" ELSE "proper"]

(***************************************************************************)
(* Bounds of the model.  An action takes the bounds B of the specification *)
(* it is used in: B.frames (the frames the detector may return), B.steps   *)
(* (the times that may pass between two readings of the clock), B.maxNow   *)
(* (the last clock value), B.maxStarts (start() calls), B.maxTimers        *)
(* (captures), B.maxOverrun (ticks of an interval after its countdown      *)
(* reached 0).                                                             *)
(***************************************************************************)
MaxStarts == 2
MaxTimers == 2
MaxNow == 1
MaxOverrun == 1
MaxVideo == 1       \* video.currentTime takes the values 0..MaxVideo

VideoTimes == 0..MaxVideo

\* Two frames: a relaxed symmetric posture at mid bow, and a posture with the left
\* shoulder raised (asymmetric by more than 20 %), the arm stretched, the elbow low.
FrameA ==
  [x |-> 500, y |-> 500, shoulderY |-> 300, elbowY |-> 330, hipY |-> 600,
   upperArm |-> 200, forearm |-> 200, reach |-> 260, rDist |-> 100, lDist |-> 100,
   fit |-> [score |-> 100, status |-> "good"]]
FrameB ==
  [x |-> 520, y |-> 500, shoulderY |-> 300, elbowY |-> 480, hipY |-> 600,
   upperArm |-> 200, forearm |-> 200, reach |-> 360, rDist |-> 100, lDist |-> 60,
   fit |-> [score |-> 40, status |-> "bad"]]
Frames == {FrameA, FrameB}

Bounds ==
  [frames |-> Frames, steps |-> {1}, maxNow |-> MaxNow, maxStarts |-> MaxStarts,
   maxTimers |-> MaxTimers, maxOverrun |-> MaxOverrun]

(***************************************************************************)
(* The initial state: the page as loaded.                                  *)
(***************************************************************************)
DriverInit ==
  /\ state = state0
  /\ lastVideoTime = 0 - 1
  /\ poseLandmarker = FALSE
  /\ stream = FALSE
  /\ startBtnDisabled = FALSE
  /\ calls = [c \in Callers |-> 0]
  /\ nStarts = 0
  /\ raf = 0
  /\ now = 0
  /\ timers = <<>>
  /\ modal = Null

Init == DriverInit /\ fin = Null /\ fout = Null

\* The part of startDiagnose after `await start()`, or all of it when the session
\* runs already (lines 520-547), applied to the state s and the intervals tm.
startDiagnoseFrom(s, tm, t) ==
  IF ~s.isRunning THEN [state |-> s, timers |-> tm]
  ELSE [state |-> startDiagnoseBody(s, t, Len(tm) + 1), timers |-> newTimer(tm)]

\* start() begins (lines 125-133): the button is disabled and the call awaits the
\* model (when none is loaded) and the camera. The two awaits are one stage here:
\* nothing reads poseLandmarker or stream between them.
BeginStart(caller, B) ==
  /\ nStarts < B.maxStarts
  /\ nStarts' = nStarts + 1
  /\ startBtnDisabled' = TRUE
  /\ calls' = [calls EXCEPT ![caller] = @ + 1]

\* toggleRunning with the session stopped: start() is called.
ClickStart(B) ==
  /\ ~startBtnDisabled
  /\ ~state.isRunning
  /\ BeginStart("toggleRunning", B)
  /\ UNCHANGED <<state, lastVideoTime, poseLandmarker, stream, raf, now, timers,
                 modal, fin, fout>>

\* toggleRunning with the session running: stop() (lines 152-166).
ClickStop ==
  /\ ~startBtnDisabled
  /\ state.isRunning
  /\ state' = stop(state)
  /\ stream' = FALSE
  /\ UNCHANGED <<lastVideoTime, poseLandmarker, startBtnDisabled, calls, nStarts,
                 raf, now, timers, modal, fin, fout>>

\* An await of start() rejects (model or camera unavailable): the catch branch, then
\* line 149, then the caller's continuation (line 522 and what follows it).
StartFails(caller, B) ==
  LET d == IF caller = "startDiagnose"
           THEN startDiagnoseFrom(state, timers, now)
           ELSE [state |-> state, timers |-> timers]
  IN /\ calls[caller] > 0
     /\ Len(d.timers) <= B.maxTimers
     /\ calls' = [calls EXCEPT ![caller] = @ - 1]
     /\ startBtnDisabled' = FALSE
     /\ state' = d.state
     /\ timers' = d.timers
     /\ UNCHANGED <<lastVideoTime, poseLandmarker, stream, nStarts, raf, now, modal,
                    fin, fout>>

\* The awaits of start() resolve for one call: lines 134-144 and 149 run, detectLoop
\* is entered once (it schedules a callback and may process a frame at once), then
\* the caller's continuation runs.
StartResumes(caller, B) ==
  /\ calls[caller] > 0
  /\ caller = "startDiagnose" => Len(timers) < B.maxTimers
  /\ \E ready \in BOOLEAN, t \in VideoTimes,
        lm \in {Null} \cup {Some(f) : f \in B.frames}, d \in B.steps :
       LET fresh == ready /\ t # lastVideoTime /\ ~IsNull(lm)
           t0 == IF fresh THEN now + d ELSE now
           dl == detectLoop(startReset(state, t0), lastVideoTime, ready, t, lm, t0)
           c == IF caller = "startDiagnose"
                THEN startDiagnoseFrom(dl.state, timers, t0)
                ELSE [state |-> dl.state, timers |-> timers]
       IN /\ t0 <= B.maxNow
          /\ state' = c.state
          /\ timers' = c.timers
          /\ lastVideoTime' = dl.lastVideoTime
          /\ now' = t0
  /\ calls' = [calls EXCEPT ![caller] = @ - 1]
  /\ poseLandmarker' = TRUE
  /\ stream' = TRUE
  /\ startBtnDisabled' = FALSE
  /\ raf' = raf + 1
  /\ UNCHANGED <<nStarts, modal, fin, fout>>

\* toggleDiagnose with a capture active: cancelDiagnose (lines 549-557).
ClickCancelDiagnose ==
  /\ state.diagnosing
  /\ state' = cancelDiagnose(state)
  /\ timers' = clearTimer(timers, state.diagnoseTimerId)
  /\ UNCHANGED <<lastVideoTime, poseLandmarker, stream, startBtnDisabled, calls,
                 nStarts, raf, now, modal, fin, fout>>

\* toggleDiagnose with no capture active and the session running: startDiagnose
\* runs to its end.
ClickStartDiagnose(B) ==
  /\ ~state.diagnosing
  /\ state.isRunning
  /\ Len(timers) < B.maxTimers
  /\ LET d == startDiagnoseFrom(state, timers, now)
     IN state' = d.state /\ timers' = d.timers
  /\ UNCHANGED <<lastVideoTime, poseLandmarker, stream, startBtnDisabled, calls,
                 nStarts, raf, now, modal, fin, fout>>

\* toggleDiagnose with no capture active and the session stopped: startDiagnose
\* calls start() and awaits it.
ClickStartDiagnoseAwait(B) ==
  /\ ~state.diagnosing
  /\ ~state.isRunning
  /\ BeginStart("startDiagnose", B)
  /\ UNCHANGED <<state, lastVideoTime, poseLandmarker, stream, raf, now, timers,
                 modal, fin, fout>>

\* The calibrate button.
ClickCalibrate ==
  /\ state' = calibrateShoulder(state)
  /\ UNCHANGED <<lastVideoTime, poseLandmarker, stream, startBtnDisabled, calls,
                 nStarts, raf, now, timers, modal, fin, fout>>

\* A scheduled callback of detectLoop runs with the session stopped: it returns
\* without scheduling another (line 257).
DetectLoopEnds ==
  /\ raf > 0
  /\ ~state.isRunning
  /\ raf' = raf - 1
  /\ UNCHANGED <<state, lastVideoTime, poseLandmarker, stream, startBtnDisabled,
                 calls, nStarts, now, timers, modal, fin, fout>>

\* A scheduled callback of detectLoop runs with the session running: it schedules
\* the next one and looks at the video.
DetectLoopTick(B) ==
  /\ raf > 0
  /\ state.isRunning
  /\ \E ready \in BOOLEAN, t \in VideoTimes,
        lm \in {Null} \cup {Some(f) : f \in B.frames}, d \in B.steps :
       LET ts == now + d
           dl == detectLoop(state, lastVideoTime, ready, t, lm, ts)
       IN /\ ts <= B.maxNow
          /\ state' = dl.state
          /\ lastVideoTime' = dl.lastVideoTime
          /\ now' = IF dl.frame THEN ts ELSE now
  /\ UNCHANGED <<poseLandmarker, stream, startBtnDisabled, calls, nStarts, raf,
                 timers, modal, fin, fout>>

\* The callback of interval k runs (lines 537-546): remaining--, and at 0 or below
\* finishDiagnose: cancelDiagnose, then showDiagnoseReport(state.diagnoseLog).
TimerTick(k, B) ==
  /\ timers[k].live
  /\ timers[k].remaining > 0 - B.maxOverrun
  /\ LET r == timers[k].remaining - 1
     IN IF r <= 0
        THEN /\ state' = cancelDiagnose(state)
             /\ timers' = clearTimer(
                  [timers EXCEPT ![k].remaining = r, ![k].reports = @ + 1],
                  state.diagnoseTimerId)
             /\ modal' = Some(showDiagnoseReport(state.diagnoseLog))
        ELSE /\ timers' = [timers EXCEPT ![k].remaining = r]
             /\ UNCHANGED <<state, modal>>
  /\ UNCHANGED <<lastVideoTime, poseLandmarker, stream, startBtnDisabled, calls,
                 nStarts, raf, now, fin, fout>>

Next(B) ==
  \/ ClickStart(B)
  \/ ClickStop
  \/ \E c \in Callers : StartFails(c, B)
  \/ \E c \in Callers : StartResumes(c, B)
  \/ ClickCancelDiagnose
  \/ ClickStartDiagnose(B)
  \/ ClickStartDiagnoseAwait(B)
  \/ ClickCalibrate
  \/ DetectLoopEnds
  \/ DetectLoopTick(B)
  \/ \E k \in 1..Len(timers) : TimerTick(k, B)

Spec == Init /\ [][Next(Bounds)]_vars

(***************************************************************************)
(* Session reset.                                                          *)
(***************************************************************************)
\* The rolling state of a session at its initial (cleared) values.
Cleared(s) ==
  /\ s.wristTrail = <<>>
  /\ s.bowDistribution = state0.bowDistribution
  /\ IsNull(s.smoothStraightness)
  /\ IsNull(s.smoothElbowHeight)
  /\ IsNull(s.baseShoulderEarDist)
  /\ IsNull(s.lastShoulderEarDist)
  /\ s.diagnoseLog = <<>>

\* start() has completed in this step without its first detectLoop() call
\* processing a frame.
StartCompletes ==
  /\ \E c \in Callers : StartResumes(c, Bounds)
  /\ now' = now

\* C1: right after stop(), and right after start() completes, the wrist trail, the
\* zone counters, the EMA accumulators, the shoulder baseline, the last measured
\* shoulder-ear distance and the diagnostic log are all at their cleared values.
C1_ResetClearsAll == [][(ClickStop \/ StartCompletes) => Cleared(state')]_vars

(***************************************************************************)
(* Captures.                                                               *)
(***************************************************************************)
\* C2: no capture is reported more than once: the interval of a capture calls
\* showDiagnoseReport (through finishDiagnose) at most once.
C2_OneReportPerCapture == \A k \in 1..Len(timers) : timers[k].reports <= 1

\* C3: cancelling the capture from toggleDiagnose stops the countdown: right after
\* it no interval is alive, so none ticks or opens a report afterwards.
C3_CancelStopsCountdown ==
  [][ClickCancelDiagnose => \A k \in 1..Len(timers') : ~timers'[k].live]_vars

\* C4: right after the cancellation, state.diagnoseLog holds no entry of the
\* cancelled capture.
C4_CancelDiscardsLog == [][ClickCancelDiagnose => state'.diagnoseLog = <<>>]_vars

(***************************************************************************)
(* The diagnostic log.  One session (a capture restarts it at most once),  *)
(* two captures, two frames: enough for a log of two different entries to  *)
(* be reported and for a second capture to start over a non-empty log.     *)
(***************************************************************************)
LogMaxNow == 2
LogMaxStarts == 1

LogBounds == [Bounds EXCEPT !.maxNow = LogMaxNow, !.maxStarts = LogMaxStarts]

SpecLog == Init /\ [][Next(LogBounds)]_vars

\* What a step did: the body of startDiagnose ran (an interval was created), a
\* frame went through processFrame (the clock was read later than before), a
\* countdown called finishDiagnose.
CaptureStarts == Len(timers') > Len(timers)
FrameProcessed == now' # now
ReportOpens == \E k \in 1..Len(timers) : timers'[k].reports # timers[k].reports

\* The log entry e is the flattened snapshot of the published record m.
DescribesFrame(e, m) ==
  /\ e.straightness = m.straightness.score
  /\ e.straightnessStatus = m.straightness.status
  /\ e.elbowHeight = m.elbow.relativeHeight
  /\ e.elbowStatus = m.elbow.status
  /\ e.elbowLabel = m.elbow.label
  /\ e.bowZone = m.bowZone.zone
  /\ e.extensionRatio = m.bowZone.extensionRatio

\* C5: the diagnostic log is emptied when a capture starts; otherwise a frame
\* processed while diagnosing appends exactly one entry, that frame's, at the end
\* and nothing else changes the log; the report opened at finish is computed from
\* the log as it stands. So the reported log is, in order, the frames processed
\* between the capture's start and its finish.
C5_LogIsTheCapturedFrames ==
  [][/\ IF CaptureStarts
        THEN state'.diagnoseLog = <<>>
        ELSE IF FrameProcessed /\ state.diagnosing
        THEN /\ Len(state'.diagnoseLog) = Len(state.diagnoseLog) + 1
             /\ SubSeq(state'.diagnoseLog, 1, Len(state.diagnoseLog)) = state.diagnoseLog
             /\ DescribesFrame(state'.diagnoseLog[Len(state'.diagnoseLog)],
                               Val(state'.currentMetrics))
        ELSE state'.diagnoseLog = state.diagnoseLog
     /\ ReportOpens => modal' = Some(showDiagnoseReport(state.diagnoseLog))]_vars

\* A capture finished and reported a log of two different frames.
C5_TwoFramesReported ==
  /\ \E k \in 1..Len(timers) : timers[k].reports = 1
  /\ ~state.diagnosing
  /\ Len(state.diagnoseLog) = 2
  /\ state.diagnoseLog[1] # state.diagnoseLog[2]
  /\ modal = Some(showDiagnoseReport(state.diagnoseLog))

(***************************************************************************)
(* The wrist trail.  Sessions started and stopped from the start button,   *)
(* long enough for the trail to fill and evict; every frame is FrameA, so  *)
(* the samples differ by their timestamps only.                            *)
(***************************************************************************)
TrailMaxNow == 63
TrailMaxStarts == 2

TrailBounds ==
  [Bounds EXCEPT !.frames = {FrameA}, !.maxNow = TrailMaxNow,
                 !.maxStarts = TrailMaxStarts]

NextTrail ==
  \/ ClickStart(TrailBounds)
  \/ ClickStop
  \/ StartFails("toggleRunning", TrailBounds)
  \/ StartResumes("toggleRunning", TrailBounds)
  \/ DetectLoopEnds
  \/ DetectLoopTick(TrailBounds)

SpecTrail == Init /\ [][NextTrail]_vars

\* The frames counted since start() (no 10 s reset happens within TrailMaxNow).
FramesOfRun(s) ==
  s.bowDistribution.tip + s.bowDistribution.middle + s.bowDistribution.frog

\* The trail holds the last Len(trail) frames processed (their timestamps are
\* now, now - 1, ... in this specification), oldest first, as many as the run
\* has had up to 60, and none from before the run's start.
TrailIsRecent(s) ==
  /\ Len(s.wristTrail) = Min2(60, FramesOfRun(s))
  /\ \A i \in 1..Len(s.wristTrail) :
       /\ s.wristTrail[i].t = now - (Len(s.wristTrail) - i)
       /\ s.wristTrail[i].t >= s.bowDistResetTime

\* One step: start() empties the trail; a processed frame goes to the end, and
\* takes the place of exactly the oldest sample when there were 60 already.
TrailStep ==
  LET before == IF StartResumes("toggleRunning", TrailBounds)
                THEN <<>> ELSE state.wristTrail
      kept == IF Len(before) = 60 THEN Tail(before) ELSE before
      new == state'.wristTrail
  IN IF FrameProcessed
     THEN /\ Len(new) = Len(kept) + 1
          /\ SubSeq(new, 1, Len(kept)) = kept
          /\ new[Len(new)].t = now'
     ELSE new = before

\* C6: the wrist trail never holds more than 60 samples; samples are appended at
\* the end and the 61st evicts exactly the oldest; the trail is the most recent
\* (at most 60) samples of the current run in chronological order; start() empties
\* it.
C6_TrailBounded ==
  /\ [](Len(state.wristTrail) <= 60 /\ TrailIsRecent(state))
  /\ [][TrailStep]_vars

\* A run has processed more than 60 frames: the trail is full and has evicted.
C6_TrailHasEvicted ==
  /\ Len(state.wristTrail) = 60
  /\ FramesOfRun(state) > 60
  /\ state.wristTrail[1].t > state.bowDistResetTime

(***************************************************************************)
(* The zone counters.  Frames of the three zones arrive DistStep or        *)
(* DistStep + 1 ms apart, so that two of them span exactly 10 s or just    *)
(* more than 10 s.                                                         *)
(***************************************************************************)
DistStep == 5000
DistMaxNow == 20004
DistMaxStarts == 2

\* A posture with the arm folded: the bow at the frog.
FrameC ==
  [x |-> 480, y |-> 500, shoulderY |-> 300, elbowY |-> 330, hipY |-> 600,
   upperArm |-> 200, forearm |-> 200, reach |-> 200, rDist |-> 100, lDist |-> 100,
   fit |-> [score |-> 100, status |-> "good"]]

DistBounds ==
  [Bounds EXCEPT !.frames = {FrameA, FrameB, FrameC},
                 !.steps = {DistStep, DistStep + 1},
                 !.maxNow = DistMaxNow, !.maxStarts = DistMaxStarts]

NextDist ==
  \/ ClickStart(DistBounds)
  \/ ClickStop
  \/ StartFails("toggleRunning", DistBounds)
  \/ StartResumes("toggleRunning", DistBounds)
  \/ DetectLoopEnds
  \/ DetectLoopTick(DistBounds)

SpecDist == Init /\ [][NextDist]_vars

NoCounts == [tip |-> 0, middle |-> 0, frog |-> 0]

\* One step: a frame processed at most 10 s after the reset time adds one to the
\* counter of its zone and to nothing else; one processed later zeroes the three
\* counters, moves the reset time to the frame and counts the frame once.
DistStepOk ==
  LET started == StartResumes("toggleRunning", DistBounds)
      dist == IF started THEN NoCounts ELSE state.bowDistribution
      reset == IF started THEN now' ELSE state.bowDistResetTime
      zone == Val(state'.currentMetrics).bowZone.zone
  IN IF FrameProcessed
     THEN IF now' - reset <= 10000
          THEN /\ state'.bowDistribution = [dist EXCEPT ![zone] = @ + 1]
               /\ state'.bowDistResetTime = reset
          ELSE /\ state'.bowDistribution = [NoCounts EXCEPT ![zone] = 1]
               /\ FramesOfRun(state') = 1
               /\ state'.bowDistResetTime = now'
     ELSE /\ state'.bowDistribution = dist
          /\ started \/ state'.bowDistResetTime = reset

\* C7: the zone counters are never negative; a frame within 10 s of the reset time
\* increments the counter of its zone only; a frame later than that zeroes all
\* three, sets the reset time to its timestamp and is counted, so the counters
\* then sum to 1.
C7_ZoneCounting ==
  /\ [](\A z \in {"tip", "middle", "frog"} : state.bowDistribution[z] >= 0)
  /\ [][DistStepOk]_vars

\* The third frame of a run came more than 10 s after the run's start: the window
\* restarted on it.
C7_WindowRestarted ==
  /\ Len(state.wristTrail) >= 3
  /\ FramesOfRun(state) = 1
  /\ state.bowDistResetTime = now
  /\ now - state.wristTrail[1].t > 10000

(***************************************************************************)
(* The percentages of the bow distribution, as functions of the counters.  *)
(***************************************************************************)
PercentMaxCount == 10

InitPercent ==
  /\ DriverInit
  /\ fin \in {Some([tip |-> a, middle |-> b, frog |-> c]) :
                a, b, c \in 0..PercentMaxCount}
  /\ fout = Null

\* The live display (computeDistributionPercent) and the report (lines 586-591,
\* reached with a non-empty log only) for the counters fin.
ComputePercent ==
  /\ ~IsNull(fin)
  /\ IsNull(fout)
  /\ fout' = Some([live |-> computeDistributionPercent(Val(fin)),
                   report |-> IF FramesOfRun([bowDistribution |-> Val(fin)]) > 0
                              THEN Some(reportZonePercent(Val(fin)))
                              ELSE Null])
  /\ UNCHANGED <<driverVars, fin>>

SpecPercent == InitPercent /\ [][ComputePercent]_vars

PercentSum(p) == p.tip + p.middle + p.frog

\* C8: the three percentages of computeDistributionPercent sum to exactly 100 for
\* any counters that are not all zero, and are 33/34/33 when they are; the zone
\* percentages of the report sum to exactly 100 too.
C8_PercentagesSumTo100 ==
  ~IsNull(fout) =>
    LET total == FramesOfRun([bowDistribution |-> Val(fin)])
        live == Val(fout).live
    IN /\ total > 0 => PercentSum(live) = 100
       /\ total = 0 => live.tip = 33 /\ live.middle = 34 /\ live.frog = 33
       /\ ~IsNull(Val(fout).report) => PercentSum(Val(Val(fout).report)) = 100

\* Percentages were computed for counters that do not divide evenly.
C8_RoundedThirds ==
  /\ ~IsNull(fout)
  /\ Val(fin) = [tip |-> 1, middle |-> 1, frog |-> 1]
  /\ Val(fout).live.tip = 33 /\ Val(fout).live.middle = 34
  /\ ~IsNull(Val(fout).report)

(***************************************************************************)
(* The shoulder baseline.  Every operation; frames with an ordinary and    *)
(* with a zero shoulder-ear distance; two frames and two sessions, so that *)
(* frames are processed and a session is restarted after a calibration.    *)
(***************************************************************************)
CalibMaxNow == 2
CalibMaxTimers == 1
CalibMaxOverrun == 0

\* The shoulders and the ears coincide: the measured distance is 0.
FrameZ ==
  [x |-> 500, y |-> 500, shoulderY |-> 300, elbowY |-> 330, hipY |-> 600,
   upperArm |-> 200, forearm |-> 200, reach |-> 260, rDist |-> 0, lDist |-> 0,
   fit |-> [score |-> 100, status |-> "good"]]

CalibBounds ==
  [Bounds EXCEPT !.frames = {FrameA, FrameZ}, !.maxNow = CalibMaxNow,
                 !.maxTimers = CalibMaxTimers, !.maxOverrun = CalibMaxOverrun]

SpecCalib == Init /\ [][Next(CalibBounds)]_vars

\* One step: the baseline changes only in calibrateShoulder, to the last measured
\* distance, which is positive, or in start(), to null.
BaselineStep ==
  state'.baseShoulderEarDist # state.baseShoulderEarDist =>
    \/ /\ ClickCalibrate
       /\ state'.baseShoulderEarDist = state.lastShoulderEarDist
       /\ Val(state.lastShoulderEarDist) > 0
    \/ /\ \E c \in Callers : StartResumes(c, CalibBounds)
       /\ IsNull(state'.baseShoulderEarDist)

\* C9: baseShoulderEarDist is changed only by calibrateShoulder (to
\* lastShoulderEarDist, and only when that is > 0) and by start() (to null);
\* processFrame, stop and the diagnose operations leave it unchanged; it is always
\* null or strictly positive.
C9_BaselineOnlyCalibrated ==
  /\ [](IsNull(state.baseShoulderEarDist) \/ Val(state.baseShoulderEarDist) > 0)
  /\ [][BaselineStep]_vars

\* A baseline was set, a frame measuring another distance was processed after it
\* and the session was stopped during a capture: the baseline is still there.
C9_BaselineSurvives ==
  /\ ~IsNull(state.baseShoulderEarDist)
  /\ state.lastShoulderEarDist # state.baseShoulderEarDist
  /\ ~state.isRunning
  /\ state.diagnosing

(***************************************************************************)
(* Shoulder tension without a baseline, as a function of the two           *)
(* shoulder-ear distances: the result of computeShoulderTension and the    *)
(* shoulder field that processFrame publishes for the same frame, first    *)
(* frame of a session (start() has just set the baseline to null).         *)
(***************************************************************************)
TensionMaxDist == 10

InitTension ==
  /\ DriverInit
  /\ fin \in {Some([rDist |-> 2 * r, lDist |-> 2 * l]) : r, l \in 0..TensionMaxDist}
  /\ fout = Null

ComputeTension ==
  /\ ~IsNull(fin)
  /\ IsNull(fout)
  /\ LET lm == [FrameA EXCEPT !.rDist = Val(fin).rDist, !.lDist = Val(fin).lDist]
         s == processFrame(startReset(state0, 0), lm, 1)
     IN fout' = Some([result |-> computeShoulderTension(lm.rDist, lm.lDist, Null),
                      published |-> Val(s.currentMetrics).shoulder])
  /\ UNCHANGED <<driverVars, fin>>

SpecTension == InitTension /\ [][ComputeTension]_vars

\* The two distances differ by more than 20 % of the larger.
DifferByFifth(d) ==
  LET hi == Max2(d.rDist, d.lDist)
  IN hi > 0 /\ 5 * Abs(d.rDist - d.lDist) > hi

\* C10, as claimed: without a baseline the result of computeShoulderTension and the
\* published shoulder field both have tension 0 and status good, whatever the two
\* distances.
C10_NoBaselineAlwaysGood ==
  ~IsNull(fout) =>
    /\ Val(fout).result.tension = 0 /\ Val(fout).result.status = "good"
    /\ Val(fout).published.tension = 0 /\ Val(fout).published.status = "good"

\* C10, as the code has it: without a baseline the tension is 0 in both; the
\* published shoulder field has status good whatever the distances; the result of
\* computeShoulderTension has status good unless the two distances differ by more
\* than 20 %, and then warn.
C10_NoBaselineGoodUnlessAsymmetric ==
  ~IsNull(fout) =>
    /\ Val(fout).result.tension = 0
    /\ Val(fout).result.status = IF DifferByFifth(Val(fin)) THEN "warn" ELSE "good"
    /\ Val(fout).published.tension = 0 /\ Val(fout).published.status = "good"

\* Distances that differ by 40 % went through both: warn from
\* computeShoulderTension, good in the published record.
C10_AsymmetricWithoutBaseline ==
  /\ ~IsNull(fout)
  /\ Val(fin) = [rDist |-> 10, lDist |-> 6]
  /\ Val(fout).result.status = "warn"
  /\ Val(fout).published.status = "good"

(***************************************************************************)
(* Captures seen from their last second.  A session with state s at clock  *)
(* time t is running, the capture began, and 14 ticks of its interval      *)
(* passed before the video delivered a new frame: what remains is the      *)
(* frames of the last second and the tick that finishes the capture.  fin  *)
(* keeps s, the session state the capture began in.                        *)
(***************************************************************************)
LastSecond(s, t) ==
  /\ state = startDiagnoseBody(s, t, 1)
  /\ lastVideoTime = 0 - 1
  /\ poseLandmarker = TRUE
  /\ stream = TRUE
  /\ startBtnDisabled = FALSE
  /\ calls = [c \in Callers |-> 0]
  /\ nStarts = 1
  /\ raf = 1
  /\ now = t
  /\ timers = <<[live |-> TRUE, remaining |-> 1, reports |-> 0]>>
  /\ modal = Null
  /\ fin = Some(s)
  /\ fout = Null

\* The session state after the frames lm, ..., lm are processed at times from..to.
RECURSIVE feedFrames(_, _, _, _)
feedFrames(s, lm, from, to) ==
  IF from > to THEN s
  ELSE feedFrames(processFrame(s, lm, from), lm, from + 1, to)

(***************************************************************************)
(* A zig-zag capture: the wrist sweeps across the three bow zones, and the *)
(* line fit of every stroke that is evaluated has curvature 6 (score 70,   *)
(* status bad).  The elbow is relaxed; the shoulders are relaxed or, in one *)
(* frame, raised (which shows once the baseline is calibrated).  The       *)
(* session has held the bow at the tip for ZigWarmup frames when the       *)
(* capture begins.                                                         *)
(***************************************************************************)
ZigWarmup == 9
ZigMaxFrames == 4

ZigTip ==
  [FrameA EXCEPT !.x = 400, !.reach = 360, !.fit = [score |-> 70, status |-> "bad"]]
ZigMid ==
  [FrameA EXCEPT !.x = 500, !.reach = 260, !.fit = [score |-> 70, status |-> "bad"]]
ZigFrog ==
  [FrameA EXCEPT !.x = 600, !.reach = 200, !.fit = [score |-> 70, status |-> "bad"]]

ZigTense == [ZigMid EXCEPT !.rDist = 80, !.lDist = 80]

ZigBounds ==
  [Bounds EXCEPT !.frames = {ZigTip, ZigMid, ZigFrog, ZigTense},
                 !.maxNow = ZigWarmup + ZigMaxFrames, !.maxOverrun = 0]

InitZig ==
  LastSecond(feedFrames(startReset(state0, 0), ZigTip, 1, ZigWarmup), ZigWarmup)

NextZig ==
  \/ DetectLoopTick(ZigBounds)
  \/ ClickCalibrate
  \/ TimerTick(1, ZigBounds)

SpecZig == InitZig /\ [][NextZig]_vars

\* The report of a finished capture is open and aggregates at least one score.
ScoredReport ==
  /\ ~IsNull(modal)
  /\ Val(modal).kind = "report"
  /\ ~IsNull(Val(modal).avgStraightness)

\* C11: the report of a capture whose evaluated strokes all have curvature above 5
\* has overall status bad or warn, never good, whatever the elbow, shoulder and
\* distribution statuses of the capture are.
C11_BadStrokesNeverGood == ScoredReport => Val(modal).overallStatus # "good"

\* C13: a capture that finishes with an empty log opens the 'no pose detected'
\* result and nothing else; one that finishes with a non-empty log opens a report,
\* and none of the numbers its aggregation divides by (log length, number of valid
\* straightness samples, number of positive tension samples, zone total, sum of
\* weights) is zero.
C13_NoPoseOrSafeDivisors ==
  [][ReportOpens =>
       IF state.diagnoseLog = <<>>
       THEN modal' = Some([kind |-> "noPose"])
       ELSE /\ Val(modal').kind = "report"
            /\ 0 \notin reportDivisors(state.diagnoseLog)]_vars

\* A report was opened for a log with scored and unscored, tense and relaxed
\* frames.
C13_MixedLogReported ==
  /\ ScoredReport
  /\ Val(modal).maxTension > 0
  /\ validStraightnessCount(state.diagnoseLog) < Len(state.diagnoseLog)
  /\ validTensionCount(state.diagnoseLog) < Len(state.diagnoseLog)

(***************************************************************************)
(* A capture of frames with the elbow at relative height 0.6, begun in a   *)
(* first run before any frame, after ElbowWarmup frames with the elbow at  *)
(* 0.1, or in a second run that follows such a run.                        *)
(***************************************************************************)
ElbowWarmup == 2
ElbowMaxFrames == 16

ElbowLow == [FrameA EXCEPT !.elbowY = 480]

ElbowBounds ==
  [Bounds EXCEPT !.frames = {ElbowLow}, !.maxNow = ElbowWarmup + ElbowMaxFrames,
                 !.maxOverrun = 0]

FirstRun == startReset(state0, 0)
AfterFrames == feedFrames(FirstRun, FrameA, 1, ElbowWarmup)
SecondRun == startReset(stop(AfterFrames), ElbowWarmup)

InitElbow ==
  \/ LastSecond(FirstRun, 0)
  \/ LastSecond(AfterFrames, ElbowWarmup)
  \/ LastSecond(SecondRun, ElbowWarmup)

NextElbow ==
  \/ DetectLoopTick(ElbowBounds)
  \/ TimerTick(1, ElbowBounds)

SpecElbow == InitElbow /\ [][NextElbow]_vars

\* The report of a finished capture of exactly 15 frames is open.
FifteenFrames ==
  /\ ~IsNull(modal)
  /\ Val(modal).kind = "report"
  /\ Len(state.diagnoseLog) = 15

ElbowTooLow(report) == report.elbowStatus = "bad" /\ report.elbowLabel = "tooLow"

\* C12, as claimed: a capture of 15 frames with elbow relative height 0.6 has
\* aggregate elbow status bad and label 'too low', whatever state the session was
\* in when the capture began.
C12_ElbowTooLowFromAnyState == FifteenFrames => ElbowTooLow(Val(modal))

\* C12, as the code has it: a capture of 15 frames with elbow relative height 0.6
\* has aggregate elbow status bad and label 'too low' when the elbow accumulator
\* (smoothElbowHeight) was null as the capture began.
C12_ElbowTooLowFromNullAccumulator ==
  FifteenFrames /\ IsNull(Val(fin).smoothElbowHeight) => ElbowTooLow(Val(modal))

\* A capture of 15 such frames begun with a null accumulator was reported: the
\* average is 0.6.
C12_FreshCaptureReported ==
  /\ FifteenFrames
  /\ IsNull(Val(fin).smoothElbowHeight)
  /\ Val(modal).avgElbow = 60

(***************************************************************************)
(* generateAdvice, as a function of the metrics record: every combination  *)
(* of the results the four evaluators can return (status and label).       *)
(***************************************************************************)
StraightnessResults == {[status |-> st] : st \in {"good", "warn", "bad"}}
ElbowResults ==
  {[status |-> "good", label |-> "OK"], [status |-> "warn", label |-> "tooHigh"],
   [status |-> "warn", label |-> "slightlyLow"], [status |-> "bad", label |-> "tooLow"]}
ShoulderResults ==
  {[status |-> "good", label |-> "relaxed"],
   [status |-> "good", label |-> "awaitingCalibration"],
   [status |-> "warn", label |-> "slightlyTense"],
   [status |-> "warn", label |-> "leftRight"],
   [status |-> "bad", label |-> "tense"]}
DistributionLabels ==
  {"tipHeavy", "frogHeavy", "middleCentred", "fullBow", "even", "--"}

InitAdvice ==
  /\ DriverInit
  /\ fin \in {Some([straightness |-> a, elbow |-> b, shoulder |-> c,
                    distribution |-> [label |-> d]]) :
                a \in StraightnessResults, b \in ElbowResults,
                c \in ShoulderResults, d \in DistributionLabels}
  /\ fout = Null

ComputeAdvice ==
  /\ ~IsNull(fin)
  /\ IsNull(fout)
  /\ fout' = Some(generateAdvice(Val(fin)))
  /\ UNCHANGED <<driverVars, fin>>

SpecAdvice == InitAdvice /\ [][ComputeAdvice]_vars

StraightnessMessages == {"bowBent", "bowSlightlyBent"}
ElbowMessages == {"elbowTooLow", "elbowTooHigh", "elbowRaise"}
ShoulderMessages == {"shoulderTense", "shoulderUneven", "shoulderRaised"}
PositiveMessages == {"fullBowPraise", "formGood"}

\* C14: generateAdvice returns one message, by the priority straightness > elbow >
\* shoulder: the straightness message if the straightness status is not good,
\* else the elbow message if the elbow status is not good, else the shoulder
\* message if the shoulder status is not good; a positive message if and only if
\* all three statuses are good.
C14_AdvicePriority ==
  ~IsNull(fout) =>
    LET m == Val(fin)
        advice == Val(fout)
    IN /\ advice \in StraightnessMessages \cup ElbowMessages
                       \cup ShoulderMessages \cup PositiveMessages
       /\ IF m.straightness.status # "good" THEN advice \in StraightnessMessages
          ELSE IF m.elbow.status # "good" THEN advice \in ElbowMessages
          ELSE IF m.shoulder.status # "good" THEN advice \in ShoulderMessages
          ELSE advice \in PositiveMessages
       /\ advice \in PositiveMessages <=>
            /\ m.straightness.status = "good"
            /\ m.elbow.status = "good"
            /\ m.shoulder.status = "good"

\* Advice was given for a record with all three metrics not good: the straightness
\* message won.
C14_StraightnessWins ==
  /\ ~IsNull(fout)
  /\ Val(fin).straightness.status = "warn"
  /\ Val(fin).elbow.status = "bad"
  /\ Val(fin).shoulder.status = "bad"
  /\ Val(fout) = "bowSlightlyBent"

(***************************************************************************)
(* Captures of a frame or two near the thresholds: the elbow at relative   *)
(* height 0.3533, the shoulders (symmetric) 25.25 % closer to the ears     *)
(* than the calibrated baseline.  The capture begins in a first run before *)
(* any frame, or after one frame and a calibration on it.                  *)
(***************************************************************************)
EdgeMaxFrames == 2

Relaxed == [FrameA EXCEPT !.rDist = 400, !.lDist = 400]
ElbowEdge == [Relaxed EXCEPT !.elbowY = 406]
ShoulderEdge == [Relaxed EXCEPT !.rDist = 299, !.lDist = 299]

EdgeBounds ==
  [Bounds EXCEPT !.frames = {Relaxed, ElbowEdge, ShoulderEdge},
                 !.maxNow = 1 + EdgeMaxFrames, !.maxOverrun = 0]

Calibrated == calibrateShoulder(feedFrames(FirstRun, Relaxed, 1, 1))

InitEdge ==
  \/ LastSecond(FirstRun, 0)
  \/ LastSecond(Calibrated, 1)

NextEdge ==
  \/ DetectLoopTick(EdgeBounds)
  \/ TimerTick(1, EdgeBounds)

SpecEdge == InitEdge /\ [][NextEdge]_vars

\* The report of a finished capture of exactly one frame is open.
SingleFrameReport ==
  /\ ~IsNull(modal)
  /\ Val(modal).kind = "report"
  /\ Len(state.diagnoseLog) = 1

\* C15: for a log of a single frame, the straightness, elbow and shoulder statuses
\* of the report equal the statuses the live evaluators gave that frame (which the
\* log entry records).
C15_ReportStatusesAreLive ==
  SingleFrameReport =>
    /\ Val(modal).straightStatus = state.diagnoseLog[1].straightnessStatus
    /\ Val(modal).elbowStatus = state.diagnoseLog[1].elbowStatus
    /\ Val(modal).shoulderStatus = state.diagnoseLog[1].shoulderStatus

(***************************************************************************)
(* Duplicate video frames, in the sessions of SpecTrail: a session stopped *)
(* and started again before the pending animation-frame callback has run   *)
(* has two detectLoop chains scheduled.                                    *)
(***************************************************************************)
\* C16: a video frame is processed at most once. A frame is processed only by a
\* tick whose video time differs from that of the last tick that reached the
\* detector (lastVideoTime), and a tick of detectLoop with the same video time
\* leaves the session state (trail, counters, accumulators, log) unchanged,
\* however many detectLoop chains are scheduled.
C16_NoFrameTwice ==
  [][/\ FrameProcessed => lastVideoTime' # lastVideoTime
     /\ DetectLoopTick(TrailBounds) /\ lastVideoTime' = lastVideoTime
          => state' = state]_vars

\* Two detectLoop chains are scheduled in a running session that has processed
\* frames.
C16_TwoChains ==
  /\ raf = 2
  /\ state.isRunning
  /\ Len(state.wristTrail) >= 2
  /\ lastVideoTime >= 0

(***************************************************************************)
(* The sessions of Spec with timers that keep firing: setInterval (line    *)
(* 537) runs its callback every second for as long as the interval has not *)
(* been cleared, whatever the session does meanwhile.                      *)
(***************************************************************************)
IntervalFires(k) == k \in 1..Len(timers) /\ TimerTick(k, Bounds)

SpecFair == Spec /\ \A k \in 1..MaxTimers : WF_vars(IntervalFires(k))

SegShort == 10
SegLong == 16

SegFit == [score |-> 95, status |-> "good"]

\* The trail of samples at the x positions f[1], f[2], ...
TrailOf(f) == [i \in DOMAIN f |-> [x |-> f[i], y |-> 0, t |-> i]]

InitSegment ==
  /\ DriverInit
  /\ \/ \E f \in [1..SegShort -> {0, 1, 40}] : fin = Some(TrailOf(f))
     \/ \E f \in [1..SegLong -> {0, 40}] : fin = Some(TrailOf(f))
  /\ fout = Null

\* computeBowStraightness(fin): the strokes list and the pending stroke at the end
\* of the loop (lines 37-58), the remembered direction, and the value returned.
ComputeSegment ==
  /\ ~IsNull(fin)
  /\ IsNull(fout)
  /\ LET s == segment(Val(fin), Len(Val(fin)))
     IN fout' = Some([strokes |-> strokesOf(Val(fin)),
                      pending |-> s.cur,
                      prevDx |-> s.prevDx,
                      result |-> computeBowStraightness(Val(fin), SegFit)])
  /\ UNCHANGED <<driverVars, fin>>

SpecSegment == InitSegment /\ [][ComputeSegment]_vars

\* The segmentation stated over the whole trail: the steps that are not noise
\* (moves), the samples at which the direction turns, the samples at which a
\* stroke starts (starts), and the stroke that starts at a sample.
DxAt(tr, i) == tr[i].x - tr[i - 1].x
Moves(tr) == { i \in 2..Len(tr) : Abs(DxAt(tr, i)) >= NOISE_DX }
LastOf(S) == CHOOSE m \in S : \A j \in S : j <= m
Turns(tr, moves) ==
  { i \in moves :
      \E j \in moves :
        /\ j < i
        /\ \A m \in moves : ~(j < m /\ m < i)
        /\ Sign(DxAt(tr, j)) # Sign(DxAt(tr, i)) }
StrokeEnd(tr, starts, b) ==
  IF \A c \in starts : c <= b THEN Len(tr)
  ELSE (CHOOSE c \in starts : c > b /\ \A d \in starts : d > b => c <= d) - 1
StrokeFrom(tr, starts, b) == SubSeq(tr, b, StrokeEnd(tr, starts, b))
KeptStarts(tr, starts) ==
  { b \in starts : StrokeEnd(tr, starts, b) - b + 1 >= MIN_STROKE }

\* C18: for any trail of at least 10 samples, noise steps (|dx| < 0.002) stay in
\* the current stroke and leave the remembered direction alone; a step against the
\* last non-noise dx closes the current stroke, kept only with 8 samples or more,
\* and starts a new one at the current sample; the stroke evaluated is the last one
\* in trail order with at least 8 samples, pending or closed; with no such stroke
\* the result is score null, status good.
C18_StrokeSegmentation ==
  ~IsNull(fout) =>
    \A tr \in {Val(fin)}, out \in {Val(fout)} :
    \A moves \in {Moves(tr)} :
    \A starts \in {{1} \cup Turns(tr, moves)} :
    \A kept \in {KeptStarts(tr, starts)} :
       /\ Len(tr) >= MIN_TRAIL
       /\ out.prevDx = IF moves = {} THEN 0 ELSE DxAt(tr, LastOf(moves))
       /\ out.pending = StrokeFrom(tr, starts, LastOf(starts))
       /\ Len(out.strokes) = Cardinality(kept)
       /\ \A b \in kept :
            out.strokes[Cardinality({c \in kept : c <= b})]
              = StrokeFrom(tr, starts, b)
       /\ IF kept = {}
          THEN out.result = [score |-> Null, status |-> "good"]
          ELSE out.result =
                 IF strokeLen2(StrokeFrom(tr, starts, LastOf(kept)))
                      < MIN_STROKE_LEN * MIN_STROKE_LEN
                 THEN [score |-> Null, status |-> "good"]
                 ELSE [score |-> Some(SegFit.score), status |-> SegFit.status]

\* A closed stroke with a noise step in it is the one evaluated and gets a score:
\* the pending stroke after it is too short to be kept.
C18_ClosedStrokeEvaluated ==
  /\ ~IsNull(fout)
  /\ Len(Val(fout).strokes) = 1
  /\ Len(Val(fout).pending) < MIN_STROKE
  /\ \E i \in 2..Len(Val(fout).strokes[1]) :
       Abs(DxAt(Val(fout).strokes[1], i)) = 1
  /\ ~IsNull(Val(fout).result.score)

(***************************************************************************)
(* src/unnamed/part_000: the session with the automatic calibration policy. *)
(* It has no capture and no calibrate button; toggleRunning, stop, the      *)
(* catch branch of start and detectLoop read as in app.js, so their actions *)
(* are the ones above, over a state record with calibrationFrames.          *)
(***************************************************************************)
CALIBRATION_FRAMES == 30
ALPHA_BASE == 30

\* The state object (lines 67-82).
autoState0 ==
  [isRunning |-> FALSE,
   wristTrail |-> <<>>,
   bowDistribution |-> [tip |-> 0, middle |-> 0, frog |-> 0],
   bowDistResetTime |-> 0,
   baseShoulderEarDist |-> Null,
   calibrationFrames |-> 0,
   smoothStraightness |-> Null,
   smoothElbowHeight |-> Null,
   smoothShoulderTension |-> Null,
   currentMetrics |-> Null]

\* A calibration that still learns from the frame after the 30th.
autoCalibrateOneMore(base, frames, currentDist) ==
  IF frames <= CALIBRATION_FRAMES
  THEN [baseShoulderEarDist |-> Some(ema(base, currentDist, ALPHA_BASE)),
        calibrationFrames |-> frames + 1]
  ELSE [baseShoulderEarDist |-> base, calibrationFrames |-> frames]

\* Lines 276-285: the baseline and the frame counter after a frame whose
\* shoulder-ear distance is currentDist (ema returns curr for a null prev).
autoCalibrate(base, frames, currentDist) ==
  IF frames < CALIBRATION_FRAMES
  THEN [baseShoulderEarDist |-> Some(ema(base, currentDist, ALPHA_BASE)),
        calibrationFrames |-> frames + 1]
  ELSE [baseShoulderEarDist |-> base, calibrationFrames |-> frames]

\* processFrame (lines 234-305).
autoProcessFrame(s, lm, ts) ==
  LET trail == pushTrail(s.wristTrail, [x |-> lm.x, y |-> lm.y, t |-> ts])
      straightness == computeBowStraightness(trail, lm.fit)
      smoothS == IF ~IsNull(straightness.score)
                 THEN Some(ema(s.smoothStraightness,
                               Val(straightness.score) * SCORE_UNIT, ALPHA_STRAIGHT))
                 ELSE s.smoothStraightness
      bowZone == computeBowZone(lm.upperArm, lm.forearm, lm.reach)
      counted == countZone(s.bowDistribution, s.bowDistResetTime, bowZone.zone, ts)
      distribution == computeDistributionPercent(counted.bowDistribution)
      elbowHeight == computeElbowHeight(lm.shoulderY, lm.elbowY, lm.hipY)
      smoothE == ema(s.smoothElbowHeight,
                     elbowHeight.relativeHeight * CENTI_IN_MICRO, ALPHA_ELBOW)
      shoulderTension == computeShoulderTension(lm.rDist, lm.lDist,
                                                s.baseShoulderEarDist)
      calibrated == autoCalibrate(s.baseShoulderEarDist, s.calibrationFrames,
                                  shoulderTension.currentDist)
  IN [s EXCEPT
        !.wristTrail = trail,
        !.smoothStraightness = smoothS,
        !.bowDistribution = counted.bowDistribution,
        !.bowDistResetTime = counted.bowDistResetTime,
        !.smoothElbowHeight = Some(smoothE),
        !.baseShoulderEarDist = calibrated.baseShoulderEarDist,
        !.calibrationFrames = calibrated.calibrationFrames,
        !.currentMetrics = Some(
           [straightness |-> [score |-> roundScore(smoothS),
                              status |-> straightness.status],
            distribution |-> distribution,
            bowZone |-> bowZone,
            elbow |-> [elbowHeight EXCEPT
                         !.relativeHeight = Round(smoothE, CENTI_IN_MICRO)],
            shoulder |-> shoulderTension])]

\* detectLoop (lines 203-231), one call with the session running.
autoDetectLoop(s, lvt, ready, t, lm, ts) ==
  IF ~ready \/ t = lvt
  THEN [state |-> s, lastVideoTime |-> lvt, frame |-> FALSE]
  ELSE IF IsNull(lm)
       THEN [state |-> s, lastVideoTime |-> t, frame |-> FALSE]
       ELSE [state |-> autoProcessFrame(s, Val(lm), ts), lastVideoTime |-> t,
             frame |-> TRUE]

\* start (lines 113-118).
autoStartReset(s, t) ==
  [s EXCEPT !.isRunning = TRUE,
            !.baseShoulderEarDist = Null,
            !.calibrationFrames = 0,
            !.bowDistribution = [tip |-> 0, middle |-> 0, frog |-> 0],
            !.bowDistResetTime = t,
            !.wristTrail = <<>>]

AutoMaxNow == 33
AutoMaxStarts == 2

\* Two postures that differ in the shoulder-ear distance only.
AutoNear == [FrameA EXCEPT !.rDist = 100, !.lDist = 100]
AutoFar == [FrameA EXCEPT !.rDist = 104, !.lDist = 104]

AutoBounds ==
  [Bounds EXCEPT !.frames = {AutoNear, AutoFar}, !.maxNow = AutoMaxNow,
                 !.maxStarts = AutoMaxStarts, !.maxTimers = 0, !.maxOverrun = 0]

InitAuto ==
  /\ state = autoState0
  /\ lastVideoTime = 0 - 1
  /\ poseLandmarker = FALSE
  /\ stream = FALSE
  /\ startBtnDisabled = FALSE
  /\ calls = [c \in Callers |-> 0]
  /\ nStarts = 0
  /\ raf = 0
  /\ now = 0
  /\ timers = <<>>
  /\ modal = Null
  /\ fin = Null
  /\ fout = Null

\* The awaits of start() resolve: lines 113-123 run, detectLoop is entered once,
\* then line 128.
AutoStartResumes(B) ==
  /\ calls["toggleRunning"] > 0
  /\ \E ready \in BOOLEAN, t \in VideoTimes,
        lm \in {Null} \cup {Some(f) : f \in B.frames}, d \in B.steps :
       LET fresh == ready /\ t # lastVideoTime /\ ~IsNull(lm)
           t0 == IF fresh THEN now + d ELSE now
           dl == autoDetectLoop(autoStartReset(state, t0), lastVideoTime, ready,
                                t, lm, t0)
       IN /\ t0 <= B.maxNow
          /\ state' = dl.state
          /\ lastVideoTime' = dl.lastVideoTime
          /\ now' = t0
  /\ calls' = [calls EXCEPT !["toggleRunning"] = @ - 1]
  /\ poseLandmarker' = TRUE
  /\ stream' = TRUE
  /\ startBtnDisabled' = FALSE
  /\ raf' = raf + 1
  /\ UNCHANGED <<nStarts, timers, modal, fin, fout>>

\* A scheduled callback of detectLoop runs with the session running.
AutoDetectLoopTick(B) ==
  /\ raf > 0
  /\ state.isRunning
  /\ \E ready \in BOOLEAN, t \in VideoTimes,
        lm \in {Null} \cup {Some(f) : f \in B.frames}, d \in B.steps :
       LET ts == now + d
           dl == autoDetectLoop(state, lastVideoTime, ready, t, lm, ts)
       IN /\ ts <= B.maxNow
          /\ state' = dl.state
          /\ lastVideoTime' = dl.lastVideoTime
          /\ now' = IF dl.frame THEN ts ELSE now
  /\ UNCHANGED <<poseLandmarker, stream, startBtnDisabled, calls, nStarts, raf,
                 timers, modal, fin, fout>>

NextAuto ==
  \/ ClickStart(AutoBounds)
  \/ ClickStop
  \/ StartFails("toggleRunning", AutoBounds)
  \/ AutoStartResumes(AutoBounds)
  \/ DetectLoopEnds
  \/ AutoDetectLoopTick(AutoBounds)

SpecAuto == InitAuto /\ [][NextAuto]_vars

\* The shoulder-ear distance of the frame just processed.
FrameDist(s) == Val(s.currentMetrics).shoulder.currentDist

\* C19: under the automatic calibration policy the baseline is learned over the
\* first 30 processed frames of a run only: the first frame after start() sets it
\* to that frame's shoulder-ear distance, frames 2 to 30 update it by EMA with
\* alpha 0.3, calibrationFrames is the number of frames of the run up to 30 and
\* never more, later frames leave the baseline unchanged, and start() resets the
\* baseline to null and the counter to 0 (before the frame it may process at once).
C19_BaselineLearnedInThirtyFrames ==
  [][/\ state'.calibrationFrames = Min2(FramesOfRun(state'), CALIBRATION_FRAMES)
     /\ AutoStartResumes(AutoBounds) /\ ~FrameProcessed
          => IsNull(state'.baseShoulderEarDist)
     /\ FrameProcessed =>
          LET n == FramesOfRun(state')
          IN /\ n = 1 => state'.baseShoulderEarDist = Some(FrameDist(state'))
             /\ n \in 2..CALIBRATION_FRAMES =>
                  state'.baseShoulderEarDist
                    = Some(Val(state.baseShoulderEarDist)
                           + Round(ALPHA_BASE * (FrameDist(state')
                                     - Val(state.baseShoulderEarDist)), 100))
             /\ n > CALIBRATION_FRAMES =>
                  state'.baseShoulderEarDist = state.baseShoulderEarDist
     /\ ~FrameProcessed /\ ~AutoStartResumes(AutoBounds)
          => /\ state'.baseShoulderEarDist = state.baseShoulderEarDist
             /\ state'.calibrationFrames = state.calibrationFrames]_vars

\* The second run of a session has processed 31 frames, the last of them at a
\* distance that differs from the learned baseline.
C19_ThirtyFirstFrame ==
  /\ nStarts = 2
  /\ state.isRunning
  /\ FramesOfRun(state) = CALIBRATION_FRAMES + 1
  /\ state.calibrationFrames = CALIBRATION_FRAMES
  /\ state.baseShoulderEarDist # Some(FrameDist(state))

(***************************************************************************)
(* The range of the percentages, for the counters of SpecPercent.           *)
(***************************************************************************)
InRange(p) == \A z \in {"tip", "middle", "frog"} : p[z] >= 0 /\ p[z] <= 100

\* C20: for all non-negative counters with a non-zero total, the tip, middle and
\* frog percentages of computeDistributionPercent and of the session report are
\* each at least 0 and at most 100; the middle one, the remainder
\* 100 - tip% - frog%, is never negative.
C20_PercentagesInRange ==
  ~IsNull(fout) /\ FramesOfRun([bowDistribution |-> Val(fin)]) > 0 =>
    /\ InRange(Val(fout).live)
    /\ InRange(Val(Val(fout).report))

(***************************************************************************)
(* Captures and intervals over the sessions of Spec.                       *)
(***************************************************************************)
\* C21: a diagnostic capture is active only while the session is running: in
\* every reachable state state.diagnosing implies state.isRunning.
C21_DiagnosingOnlyWhileRunning == state.diagnosing => state.isRunning

\* The intervals that have been created and not cleared.
LiveTimers == { k \in 1..Len(timers) : timers[k].live }

\* C22: at most one countdown interval is alive at any time, state.diagnoseTimerId
\* names it, and none is alive once state.diagnosing is false, under every
\* interleaving of diagnose-button clicks with a pending start().
C22_OneIntervalAlive ==
  /\ Cardinality(LiveTimers) <= 1
  /\ \A k \in LiveTimers : state.diagnoseTimerId = Some(k)
  /\ ~state.diagnosing => LiveTimers = {}

====
